---------------------------- MODULE Spec2Model ----------------------------
(***************************************************************************)
(* Model of src/src/cr_agente_9.py (Agente 9 - Recover): the backup        *)
(* integrity ledger (ValidationAgent), the priority driven restoration     *)
(* orchestrator (OrchestrationAgent) and the supervisor with its           *)
(* monitoring thread (CyberResilienceSystem).                              *)
(*                                                                         *)
(* Three other programs of the repository are modelled as far as the       *)
(* properties stated of them need: the file watcher of cr_agente_4.py, the *)
(* asset catalog of cr_agente_1.py and the queue pipeline of               *)
(* cr_agente_6.py.  Each is a program of its own with its own variables;   *)
(* in a specification of one program the others do not move.               *)
(*                                                                         *)
(* Threads: "main" is the caller of the public API; "mon1", "mon2" are the *)
(* threads start_monitoring spawns.  The code takes no lock anywhere, so   *)
(* every access to the file system (backup store, hash_db.json, production *)
(* tree) is a step of its own and steps of different threads interleave.   *)
(*                                                                         *)
(* Numbers: priorities are Python floats.  They are modelled as exact      *)
(* fractions <<num, den>> with the rounding error of the double; on the    *)
(* values used here float rounding never reverses a strict order of two    *)
(* fractions, it can only separate two fractions that are exactly equal.   *)
(***************************************************************************)
EXTENDS Integers, Sequences, FiniteSets, TLC

\* ---------------------------------------------------------------- bounds
\* External writes to the backup store (creation of or tampering with an artifact).
MaxEnvWrites == 1
\* Calls the main thread makes on the public API.
MaxMainCalls == 2
\* Iterations of one monitoring loop.
MaxTicks == 1
\* The static priorities of the registries the priority computation is tried on.
MaxPriority == 3
\* cr_agente_4: files other programs write into the watched directory.
MaxExternalEvents == 2
\* cr_agente_4: the ".enc" suffixes a file name takes before the file system
\* refuses the name as too long.
MaxSuffixes == 3
\* cr_agente_1: findings of one scan, and scans of the discovery agent.
MaxFindings == 2
MaxScans == 2
\* cr_agente_6: indicators the feed agent collects.
MaxIndicators == 3

\* ------------------------------------------------------------ file names
ServiceNames == {"servicio_db", "servicio_api", "servicio_web"}

\* datetime.now().strftime('%Y%m%d')
Today == "today"

\* f"{service}_backup_{date}.bak"
BackupFile(service, date) == <<service, "_backup_", date, ".bak">>

Artifacts == {BackupFile(s, Today) : s \in ServiceNames}

\* The order in which os.listdir names the files of the backup directory.
DirectoryOrder ==
    << BackupFile("servicio_db", Today), BackupFile("servicio_api", Today),
       BackupFile("servicio_web", Today) >>

\* ------------------------------------------------------------- registry
\* BackupConfig.load_critical_services: the built-in default set, in dict order.
DefaultServices ==
    << [name |-> "servicio_db",  priority |-> 1, demand_threshold |-> 100],
       [name |-> "servicio_api", priority |-> 2, demand_threshold |-> 80],
       [name |-> "servicio_web", priority |-> 3, demand_threshold |-> 50] >>

\* OrchestrationAgent.evaluate_demands: the simulated sample.
SimulatedDemands ==
    [s \in ServiceNames |->
        CASE s = "servicio_db"  -> 150
          [] s = "servicio_api" -> 65
          [] s = "servicio_web" -> 30]

\* dict.get(service, 0)
Get(d, k, default) == IF k \in DOMAIN d THEN d[k] ELSE default

\* critical_services[service]
ServiceData(services, name) ==
    services[CHOOSE i \in 1..Len(services) : services[i].name = name]

\* -------------------------------------------------- prioritize_services
Max(a, b) == IF a >= b THEN a ELSE b

\* The three roundings of  priority * (1 / max(0.1, demand / threshold))  in
\* binary64: the inputs <<priority, threshold, demand>>, among priorities 1..5,
\* thresholds 50, 80, 100 and the demands used below, for which the double the
\* expression yields is the one just below the double nearest to the real
\* value (for all the others it is the nearest one).
RoundedDown ==
    { <<1, 50, 65>>, <<1, 80, 74>>, <<1, 100, 65>>,
      <<2, 50, 65>>, <<2, 80, 74>>, <<2, 100, 65>>,
      <<3, 80, 74>>,
      <<4, 50, 65>>, <<4, 80, 74>>, <<4, 100, 65>>,
      <<5, 50, 65>>, <<5, 50, 74>>, <<5, 50, 75>>, <<5, 50, 150>>,
      <<5, 80, 30>>, <<5, 80, 74>>,
      <<5, 100, 65>>, <<5, 100, 74>>, <<5, 100, 75>>, <<5, 100, 150>> }

\* The distance, in units in the last place, of the computed double from the
\* double nearest to the real value.
RoundingError(priority, threshold, demand) ==
    IF <<priority, threshold, demand>> \in RoundedDown THEN 0 - 1 ELSE 0

\* priority = data["priority"] * (1 / max(0.1, current_demand / demand_threshold))
\* as the fraction  10 * priority * threshold / max(threshold, 10 * demand)
\* and the rounding error of the double that stands for it.
\* (PriorityNoFloor: the ratio without max(0.1, ...).)
PriorityNoFloor(data, current_demand) ==
    <<10 * data.priority * data.demand_threshold, 10 * current_demand, 0>>
Priority(data, current_demand) ==
    <<10 * data.priority * data.demand_threshold,
      Max(data.demand_threshold, 10 * current_demand),
      RoundingError(data.priority, data.demand_threshold, current_demand)>>

\* x[0] < y[0] on two doubles: by their real values (positive denominators),
\* two doubles of the same real value by their rounding errors.
\* (FracGreater: the comparison of a sort with reverse=True.)
FracGreater(a, b) ==
    \/ a[1] * b[2] > b[1] * a[2]
    \/ a[1] * b[2] = b[1] * a[2] /\ a[3] > b[3]
FracLess(a, b) ==
    \/ a[1] * b[2] < b[1] * a[2]
    \/ a[1] * b[2] = b[1] * a[2] /\ a[3] < b[3]

\* priority_list.append((priority, service)), in registry order.
\* (PriorityListOfSampled: the loop run over the services of the sample.)
PriorityListOfSampled(services, demands) ==
    SelectSeq([i \in 1..Len(services) |->
                  <<Priority(services[i], Get(demands, services[i].name, 0)),
                    services[i].name>>],
              LAMBDA x : x[2] \in DOMAIN demands)

PriorityList(services, demands) ==
    [i \in 1..Len(services) |->
        <<Priority(services[i], Get(demands, services[i].name, 0)),
          services[i].name>>]

\* list.sort(key=lambda x: x[0]): a stable sort, as an insertion sort that puts
\* each element after the elements whose key is not greater.
RECURSIVE InsertSorted(_, _)
InsertSorted(sorted, x) ==
    IF sorted = <<>> THEN <<x>>
    ELSE IF FracLess(x[1], Head(sorted)[1])
         THEN <<x>> \o sorted
         ELSE <<Head(sorted)>> \o InsertSorted(Tail(sorted), x)

RECURSIVE SortByKey(_)
SortByKey(list) ==
    IF list = <<>> THEN <<>>
    ELSE InsertSorted(SortByKey(SubSeq(list, 1, Len(list) - 1)), list[Len(list)])

\* return [service for _, service in priority_list]
\* (RegistryOrder: the list returned without having been sorted.)
RegistryOrder(services, demands) == [i \in 1..Len(services) |-> services[i].name]
PrioritizeServices(services, demands) ==
    LET sorted == SortByKey(PriorityList(services, demands))
    IN  [i \in 1..Len(sorted) |-> sorted[i][2]]

\* ---------------------------------------------------------------- files
\* A file is its sequence of chunks; a path that does not exist is NoFile.
NoFile == [exists |-> FALSE, data |-> <<>>]
File(data) == [exists |-> TRUE, data |-> data]

\* The contents an artifact can have (non-empty, one chunk of bytes each).
Contents == {<<1>>, <<2>>}

\* calculate_hash: sha256.update(chunk) over the chunks, then hexdigest().
RECURSIVE Sha256Update(_, _)
Sha256Update(h, data) ==
    IF data = <<>> THEN h
    ELSE Sha256Update((h * 31 + Head(data)) % 251, Tail(data))
CalculateHash(file) == Sha256Update(7, file.data)

\* production/<service>: the directory and the two files a restore writes.
NoTarget == [dir |-> FALSE, partial_restore |-> NoFile, full_restore |-> NoFile]

\* os.path.join(target, "partial_restore" | "full_restore")
RestoreName(partial) == IF partial THEN "partial_restore" ELSE "full_restore"

\* -------------------------------------------------------------- threads
MainThread == "main"
Monitors == {"mon1", "mon2"}
Threads == {MainThread} \cup Monitors

VARIABLES
    critical_services,  \* config.critical_services, in dict order
    demand_source,      \* what evaluate_demands samples
    current_demands,    \* OrchestrationAgent.current_demands
    backups,            \* the files of config.backup_dir
    hash_db,            \* the content of hash_db.json (no file: the empty map)
    production,         \* the tree under config.production_dir
    integrity_status,   \* ValidationAgent.integrity_status
    monitor_active,     \* CyberResilienceSystem.monitor_active
    pc,                 \* where each thread is
    loc,                \* each thread's local variables
    env_writes,         \* external writes to the backup store so far
    main_calls,         \* API calls of the main thread so far
    ticks               \* iterations each monitoring loop has completed

\* The variables of cr_agente_9.py.
recover == <<critical_services, demand_source, current_demands, backups,
            hash_db, production, integrity_status, monitor_active, pc, loc,
            env_writes, main_calls, ticks>>

VARIABLES
    watch_dir,          \* cr_agente_4: the files under IntelligentAgent.watch_dir
    event_queue,        \* cr_agente_4: the observer's queue of file events
    observer,           \* cr_agente_4: the observer's dispatching thread
    external_events,    \* cr_agente_4: files other programs wrote so far
    store,              \* cr_agente_1: Catalog._store
    found,              \* cr_agente_1: the findings of the scan not yet processed
    scans,              \* cr_agente_1: scans made so far
    queue_raw,          \* cr_agente_6: main's queue_raw
    queue_norm,         \* cr_agente_6: main's queue_norm
    queue_prio,         \* cr_agente_6: main's queue_prio
    alerts,             \* cr_agente_6: the alerts emit_alert printed, in order
    fetched             \* cr_agente_6: indicators the feed agent has put so far

protect == <<watch_dir, event_queue, observer, external_events>>
identify == <<store, found, scans>>
detect == <<queue_raw, queue_norm, queue_prio, alerts, fetched>>
other_agents == <<protect, identify, detect>>

vars == <<recover, other_agents>>

config == <<critical_services, demand_source>>
counters == <<env_writes, main_calls, ticks>>

EmptyMap == [x \in {} |-> x]

\* cr_agente_4 before a file is written, cr_agente_1 with an empty catalog,
\* cr_agente_6 with its three queues empty.
NotStarted ==
    /\ watch_dir = {}
    /\ event_queue = <<>>
    /\ observer = "running"
    /\ external_events = 0
    /\ store = EmptyMap
    /\ found = <<>>
    /\ scans = 0
    /\ queue_raw = <<>>
    /\ queue_norm = <<>>
    /\ queue_prio = <<>>
    /\ alerts = <<>>
    /\ fetched = 0

\* The locals of a thread that is in no call.
NoLocals ==
    [ listing        |-> <<>>,      \* full_validation_cycle: os.listdir's list
      todo           |-> <<>>,      \* full_validation_cycle: files still to visit
      backup_file    |-> <<>>,      \* verify_backup / restore_service: backup_file
      current_hash   |-> {},        \* verify_backup: current_hash, once computed
      known_hashes   |-> EmptyMap,  \* verify_backup: known_hashes
      caller         |-> "",        \* who called verify_backup
      entry0         |-> {},        \* the ledger entry of backup_file when the call began
      ret            |-> <<>>,      \* the tuple a call has just returned
      demands        |-> EmptyMap,  \* prioritize_services: the sampled demands
      prioritized    |-> <<>>,      \* orchestrate_restorations: prioritized
      i              |-> 0,         \* services of prioritized already handled
      service        |-> "",        \* the loop variable service
      current_demand |-> 0,
      threshold      |-> 0,
      partial        |-> FALSE,
      results        |-> EmptyMap ]

\* Where a thread goes on when full_validation_cycle / orchestrate_restorations
\* returns: the main thread back to its caller, a monitor on in monitoring_loop.
AfterCycle(t) == IF t = MainThread THEN "idle" ELSE "m_detect"
AfterOrchestrate(t) == IF t = MainThread THEN "idle" ELSE "m_sleep"

VerifyPcs == {"v_hash", "v_load", "v_check"}
RestorePcs ==
    {"r_valid", "r_exists", "r_mkdir", "r_open", "r_write", "r_blocked"}
OrchestratePcs == {"o_next", "o_record"} \cup RestorePcs

\* Thread t is inside orchestrate_restorations.
InOrchestrate(t) ==
    \/ pc[t] \in OrchestratePcs
    \/ pc[t] \in VerifyPcs /\ loc[t].caller = "restore"

\* ----------------------------------------------------------------- Init
\* The backup store the system is started on: today's backups of servicio_db
\* and servicio_api are there, servicio_web's is not (yet).
InitialBackups ==
    [a \in Artifacts |->
        IF a = BackupFile("servicio_web", Today) THEN NoFile ELSE File(<<1>>)]

\* The state CyberResilienceSystem() is constructed in, for a registry and a
\* demand source.
Constructed(services, source) ==
    /\ critical_services = services
    /\ demand_source = source
    /\ current_demands = EmptyMap
    /\ backups = InitialBackups
    /\ hash_db = EmptyMap
    /\ production = [s \in ServiceNames |-> NoTarget]
    /\ integrity_status = EmptyMap
    /\ monitor_active = FALSE
    /\ pc = [t \in Threads |-> IF t = MainThread THEN "idle" ELSE "unborn"]
    /\ loc = [t \in Threads |-> NoLocals]
    /\ env_writes = 0
    /\ main_calls = 0
    /\ ticks = [t \in Monitors |-> 0]
    /\ NotStarted

\* No critical_services.json: the default registry, and the simulated demand.
Init == Constructed(DefaultServices, SimulatedDemands)

\* -------------------------------------------------------------- helpers
Goto(t, p) == pc' = [pc EXCEPT ![t] = p]
SetLocals(t, l) == loc' = [loc EXCEPT ![t] = l]

\* d[k] = v on a dict
\* (PutDropped: the assignment left out.)
PutDropped(d, k, v) == d
Put(d, k, v) == [x \in DOMAIN d \cup {k} |-> IF x = k THEN v ELSE d[x]]

\* The ledger's entry for a file, as a set: empty when there is none.
Entry(db, file) == IF file \in DOMAIN db THEN {db[file]} ELSE {}

\* os.listdir(config.backup_dir)
Listdir == SelectSeq(DirectoryOrder, LAMBDA a : backups[a].exists)

\* The outcomes of verify_backup.
NotFound   == <<FALSE, "Backup no encontrado">>
Verified   == <<TRUE, "Integridad verificada">>
Mismatch   == <<FALSE, "Hash no coincide">>
Registered == <<TRUE, "Nuevo backup registrado">>

\* Where verify_backup returns to: the line after the call in its caller.
AfterVerify(l) == IF l.caller = "cycle" THEN "c_record" ELSE "r_valid"

\* The locals verify_backup leaves behind when it returns r.
VerifyReturn(l, r) ==
    [l EXCEPT !.ret = r, !.current_hash = {}, !.known_hashes = EmptyMap,
              !.entry0 = {}]

\* partial = current_demand < threshold * 1.5
\* (IsPartialInclusive: the comparison with <=.)
IsPartialInclusive(current_demand, threshold) == 2 * current_demand <= 3 * threshold
IsPartial(current_demand, threshold) == 2 * current_demand < 3 * threshold

\* if success and current_demand < threshold: break
\* (EarlyExitDropped: the loop without its break.  EarlyExitOverThreshold: the
\* comparison turned round.  EarlyExitOnFailure: a break on the first failure.
\* EarlyExitBelowThreshold: a break that does not look at success.)
EarlyExitBelowThreshold(success, current_demand, threshold) ==
    current_demand < threshold
EarlyExitDropped(success, current_demand, threshold) == FALSE
EarlyExitOnFailure(success, current_demand, threshold) == ~success
EarlyExitOverThreshold(success, current_demand, threshold) ==
    success /\ current_demand >= threshold
EarlyExit(success, current_demand, threshold) ==
    success /\ current_demand < threshold

\* if not is_valid: return False, "Backup inválido"
\* (BackupNeverRejected: restore_service without that test.)
BackupNeverRejected(is_valid) == FALSE
BackupRejected(is_valid) == ~is_valid

\* ------------------------------------------------ full_validation_cycle
\* for backup in os.listdir(...): the listing is taken once, when the loop starts.
StartCycle(t) ==
    /\ SetLocals(t, [NoLocals EXCEPT !.listing = Listdir, !.todo = Listdir])
    /\ Goto(t, "c_next")

\* The head of the for loop: the next file is handed to verify_backup, or the
\* cycle returns integrity_status.
CycleNext(t) ==
    /\ pc[t] = "c_next"
    /\ \/ /\ loc[t].todo = <<>>
          /\ SetLocals(t, NoLocals)
          /\ Goto(t, AfterCycle(t))
       \/ /\ loc[t].todo # <<>>
          /\ LET backup == Head(loc[t].todo)
             IN  SetLocals(t, [loc[t] EXCEPT !.todo = Tail(@),
                                             !.backup_file = backup,
                                             !.caller = "cycle",
                                             !.entry0 = Entry(hash_db, backup)])
          /\ Goto(t, "v_hash")
    /\ UNCHANGED <<config, other_agents, current_demands, backups, hash_db, production,
                   integrity_status, monitor_active, counters>>

\* self.integrity_status[backup] = {"valid": ..., "message": ...}
CycleRecord(t) ==
    /\ pc[t] = "c_record"
    /\ integrity_status' =
          Put(integrity_status, loc[t].backup_file,
              [valid |-> loc[t].ret[1], message |-> loc[t].ret[2]])
    /\ SetLocals(t, [loc[t] EXCEPT !.ret = <<>>, !.backup_file = <<>>,
                                   !.caller = ""])
    /\ Goto(t, "c_next")
    /\ UNCHANGED <<config, other_agents, current_demands, backups, hash_db, production,
                   monitor_active, counters>>

\* -------------------------------------------------------- verify_backup
\* os.path.exists(backup_path)
\* (PathAlwaysExists: verify_backup without its test of the path.)
PathAlwaysExists(file) == TRUE
PathExists(file) == file.exists

\* if not os.path.exists(backup_path): return ...; then calculate_hash(backup_path).
VerifyHash(t) ==
    /\ pc[t] = "v_hash"
    /\ LET file == backups[loc[t].backup_file]
       IN  \/ /\ ~PathExists(file)
              /\ SetLocals(t, VerifyReturn(loc[t], NotFound))
              /\ Goto(t, AfterVerify(loc[t]))
           \/ /\ PathExists(file)
              /\ SetLocals(t, [loc[t] EXCEPT !.current_hash = {CalculateHash(file)}])
              /\ Goto(t, "v_load")
    /\ UNCHANGED <<config, other_agents, current_demands, backups, hash_db, production,
                   integrity_status, monitor_active, counters>>

\* known_hashes = json.load(f), or {} when hash_db.json does not exist.
\* (VerifyLoadMovesArtifact: a verify that moves the artifact it has hashed out
\* of the backup directory.)
VerifyLoadMovesArtifact(t) ==
    /\ pc[t] = "v_load"
    /\ SetLocals(t, [loc[t] EXCEPT !.known_hashes = hash_db])
    /\ Goto(t, "v_check")
    /\ backups' = [backups EXCEPT ![loc[t].backup_file] = NoFile]
    /\ UNCHANGED <<config, other_agents, current_demands, hash_db, production,
                   integrity_status, monitor_active, counters>>

VerifyLoad(t) ==
    /\ pc[t] = "v_load"
    /\ SetLocals(t, [loc[t] EXCEPT !.known_hashes = hash_db])
    /\ Goto(t, "v_check")
    /\ UNCHANGED <<config, other_agents, current_demands, backups, hash_db, production,
                   integrity_status, monitor_active, counters>>

\* The comparison against the known hash, or the registration of a new one:
\* json.dump(known_hashes, f) writes the whole map this thread loaded.
Compare(known, current) == IF known = current THEN Verified ELSE Mismatch
VerifyCheck(t) ==
    /\ pc[t] = "v_check"
    /\ LET l == loc[t]
           h == CHOOSE x \in l.current_hash : TRUE
       IN  \/ /\ l.backup_file \in DOMAIN l.known_hashes
              /\ SetLocals(t, VerifyReturn(l, Compare(l.known_hashes[l.backup_file], h)))
              /\ UNCHANGED hash_db
           \/ /\ l.backup_file \notin DOMAIN l.known_hashes
              /\ hash_db' = Put(l.known_hashes, l.backup_file, h)
              /\ SetLocals(t, VerifyReturn(l, Registered))
    /\ Goto(t, AfterVerify(loc[t]))
    /\ UNCHANGED <<config, other_agents, current_demands, backups, production,
                   integrity_status, monitor_active, counters>>

\* ------------------------------------------------------ restore_service
\* What restore_service returns to orchestrate_restorations.
InvalidBackup == <<FALSE, "Backup inválido">>
Restored      == <<TRUE, "Restauración exitosa">>
FileExists    == <<FALSE, "[Errno 17] File exists">>
\* (WriteSwallowed: the exception of the copy is not reported.)
WriteSwallowed == <<TRUE, "Restauración exitosa">>
WriteError    == <<FALSE, "[Errno 5] Input/output error">>

\* is_valid, _ = verify_backup(backup_file); if not is_valid: return ...
RestoreValid(t) ==
    /\ pc[t] = "r_valid"
    /\ IF BackupRejected(loc[t].ret[1])
       THEN /\ SetLocals(t, [loc[t] EXCEPT !.ret = InvalidBackup])
            /\ Goto(t, "o_record")
       ELSE /\ SetLocals(t, [loc[t] EXCEPT !.ret = <<>>])
            /\ Goto(t, "r_exists")
    /\ UNCHANGED <<config, other_agents, current_demands, backups, hash_db, production,
                   integrity_status, monitor_active, counters>>

\* if not os.path.exists(target):
RestoreExists(t) ==
    /\ pc[t] = "r_exists"
    /\ Goto(t, IF production[loc[t].service].dir THEN "r_open" ELSE "r_mkdir")
    /\ UNCHANGED <<config, other_agents, current_demands, backups, hash_db, production,
                   integrity_status, monitor_active, loc, counters>>

\* os.makedirs(target): raises FileExistsError when another thread made the
\* directory since the test; the except clause turns it into a failure result.
RestoreMkdir(t) ==
    /\ pc[t] = "r_mkdir"
    /\ \/ /\ production[loc[t].service].dir
          /\ SetLocals(t, [loc[t] EXCEPT !.ret = FileExists])
          /\ Goto(t, "o_record")
          /\ UNCHANGED production
       \/ /\ ~production[loc[t].service].dir
          /\ production' = [production EXCEPT ![loc[t].service].dir = TRUE]
          /\ Goto(t, "r_open")
          /\ UNCHANGED loc
    /\ UNCHANGED <<config, other_agents, current_demands, backups, hash_db,
                   integrity_status, monitor_active, counters>>

\* shutil.copy(source, os.path.join(target, ...)) opens the destination for
\* writing, which creates it or truncates it, in place.
OpenForWriting(target, name) == [target EXCEPT ![name] = File(<<>>)]
RestoreOpen(t) ==
    /\ pc[t] = "r_open"
    /\ production' = [production EXCEPT ![loc[t].service] =
                         OpenForWriting(@, RestoreName(loc[t].partial))]
    /\ Goto(t, "r_write")
    /\ UNCHANGED <<config, other_agents, current_demands, backups, hash_db,
                   integrity_status, monitor_active, loc, counters>>

\* shutil.copy then writes the source's bytes; an OSError on the way leaves the
\* destination as far as it got and becomes (False, str(e)).
RestoreWrite(t) ==
    /\ pc[t] = "r_write"
    /\ \/ /\ production' = [production EXCEPT
                 ![loc[t].service][RestoreName(loc[t].partial)] =
                     File(backups[loc[t].backup_file].data)]
          /\ SetLocals(t, [loc[t] EXCEPT !.ret = Restored])
       \/ /\ UNCHANGED production
          /\ SetLocals(t, [loc[t] EXCEPT !.ret = WriteError])
    /\ Goto(t, "o_record")
    /\ UNCHANGED <<config, other_agents, current_demands, backups, hash_db,
                   integrity_status, monitor_active, counters>>

\* --------------------------------------------- orchestrate_restorations
\* prioritized = self.prioritize_services(), which samples the demand first;
\* results = {}
\* A run whose sample is not stored in self.current_demands.
StartOrchestrateNoSample(t) ==
    /\ UNCHANGED critical_services
    /\ current_demands' = current_demands
    /\ SetLocals(t, [NoLocals EXCEPT
            !.demands = demand_source,
            !.prioritized = PrioritizeServices(critical_services, demand_source)])
    /\ Goto(t, "o_next")

\* A run that stores the sampled demand in the registry entry it reads.
StartOrchestrateWritesRegistry(t) ==
    /\ critical_services' =
           [k \in 1..Len(critical_services) |->
               [critical_services[k] EXCEPT
                   !.demand_threshold =
                       Get(demand_source, critical_services[k].name, 0)]]
    /\ current_demands' = demand_source
    /\ SetLocals(t, [NoLocals EXCEPT
            !.demands = demand_source,
            !.prioritized = PrioritizeServices(critical_services, demand_source)])
    /\ Goto(t, "o_next")

\* The registry is only read: for service, data in critical_services.items()
StartOrchestrate(t) ==
    /\ UNCHANGED critical_services
    /\ current_demands' = demand_source
    /\ SetLocals(t, [NoLocals EXCEPT
            !.demands = demand_source,
            !.prioritized = PrioritizeServices(critical_services, demand_source)])
    /\ Goto(t, "o_next")

\* for service in prioritized: the service of the iteration after i of them.
\* (LastService: the list walked from its end.)
LastService(prioritized, i) == prioritized[Len(prioritized) - i]

\* backup_file = f"{service}_backup_{datetime.now().strftime('%Y%m%d')}.bak"
\* (FirstBackupFile: the name computed once, for the first registered service.)
FirstBackupFile(service) == BackupFile(DefaultServices[1].name, Today)

ExpectedBackupFile(service) == BackupFile(service, Today)

NextService(prioritized, i) == prioritized[i + 1]

\* The head of the for loop: the run returns results, or the next service's
\* backup file name and restoration type are computed and restore_service is
\* called, which first calls verify_backup.
OrchestrateNext(t) ==
    /\ pc[t] = "o_next"
    /\ LET l == loc[t]
       IN  \/ /\ l.i = Len(l.prioritized)
              /\ SetLocals(t, [NoLocals EXCEPT !.results = l.results])
              /\ Goto(t, AfterOrchestrate(t))
           \/ /\ l.i < Len(l.prioritized)
              /\ LET service == NextService(l.prioritized, l.i)
                     file == ExpectedBackupFile(service)
                     current_demand == Get(current_demands, service, 0)
                     threshold ==
                         ServiceData(critical_services, service).demand_threshold
                 IN  SetLocals(t, [l EXCEPT
                         !.service = service,
                         !.backup_file = file,
                         !.current_demand = current_demand,
                         !.threshold = threshold,
                         !.partial = IsPartial(current_demand, threshold),
                         !.caller = "restore",
                         !.entry0 = Entry(hash_db, file)])
              /\ Goto(t, "v_hash")
    /\ UNCHANGED <<config, other_agents, current_demands, backups, hash_db, production,
                   integrity_status, monitor_active, counters>>

\* results[service] = {...}; if success and current_demand < threshold: break
OrchestrateRecord(t) ==
    /\ pc[t] = "o_record"
    /\ LET l == loc[t]
           results == Put(l.results, l.service,
                          [success |-> l.ret[1], message |-> l.ret[2]])
       IN  IF EarlyExit(l.ret[1], l.current_demand, l.threshold)
           THEN /\ SetLocals(t, [NoLocals EXCEPT !.results = results])
                /\ Goto(t, AfterOrchestrate(t))
           ELSE /\ SetLocals(t, [NoLocals EXCEPT
                        !.results = results,
                        !.demands = l.demands,
                        !.prioritized = l.prioritized,
                        !.i = l.i + 1])
                /\ Goto(t, "o_next")
    /\ UNCHANGED <<config, other_agents, current_demands, backups, hash_db, production,
                   integrity_status, monitor_active, counters>>

\* ------------------------------------------------------ monitoring_loop
\* Where a monitoring thread is when it does not run its loop: not started yet,
\* returned from monitoring_loop, ended by an exception that monitoring_loop let
\* through, or stopped with the process (the thread is a daemon).
NotRunning == {"unborn", "m_exit", "m_dead", "killed"}

\* The thread is running monitoring_loop.
LoopAlive(t) == pc[t] \notin NotRunning

\* while self.monitor_active: full_validation_cycle() ...
MonitorLoop(t) ==
    /\ pc[t] = "m_loop"
    /\ \/ /\ monitor_active
          /\ ticks[t] < MaxTicks
          /\ StartCycle(t)
       \/ /\ ~monitor_active
          /\ Goto(t, "m_exit")
          /\ UNCHANGED loc
    /\ UNCHANGED <<config, other_agents, current_demands, backups, hash_db, production,
                   integrity_status, monitor_active, counters>>

\* return True  #random.random() < 0.2
DetectIncident == TRUE

\* A loop that calls the detector and never orchestrates.
MonitorDetectSkips(t) ==
    /\ pc[t] = "m_detect"
    /\ Goto(t, "m_sleep")
    /\ UNCHANGED <<config, other_agents, current_demands, backups, hash_db, production,
                   integrity_status, monitor_active, loc, counters>>

\* if self.detect_incident(): orchestrate_restorations()
MonitorDetect(t) ==
    /\ pc[t] = "m_detect"
    /\ IF DetectIncident
          THEN StartOrchestrate(t)
          ELSE /\ Goto(t, "m_sleep")
               /\ UNCHANGED <<critical_services, current_demands, loc>>
    /\ UNCHANGED <<demand_source, other_agents, backups, hash_db, production, integrity_status,
                   monitor_active, counters>>

\* time.sleep(interval), and back to the loop test.
MonitorSleep(t) ==
    /\ pc[t] = "m_sleep"
    /\ ticks' = [ticks EXCEPT ![t] = @ + 1]
    /\ Goto(t, "m_loop")
    /\ UNCHANGED <<config, other_agents, current_demands, backups, hash_db, production,
                   integrity_status, monitor_active, loc, env_writes, main_calls>>

\* ------------------------------------------------- the public API calls
MainMayCall ==
    /\ pc[MainThread] = "idle"
    /\ main_calls < MaxMainCalls
    /\ main_calls' = main_calls + 1

\* resilience_system.validation_agent.full_validation_cycle()
CallFullValidation ==
    /\ MainMayCall
    /\ StartCycle(MainThread)
    /\ UNCHANGED <<config, other_agents, current_demands, backups, hash_db, production,
                   integrity_status, monitor_active, env_writes, ticks>>

\* manual_restoration(): return self.orchestration_agent.orchestrate_restorations()
CallManualRestoration ==
    /\ MainMayCall
    /\ StartOrchestrate(MainThread)
    /\ UNCHANGED <<demand_source, other_agents, backups, hash_db, production, integrity_status,
                   monitor_active, env_writes, ticks>>

\* start_monitoring(): monitor_active = True, and a new thread runs monitoring_loop.
NewThread == IF pc["mon1"] = "unborn" THEN "mon1" ELSE "mon2"
CallStartMonitoring ==
    /\ MainMayCall
    /\ pc[NewThread] = "unborn"
    /\ monitor_active' = TRUE
    /\ pc' = [pc EXCEPT ![NewThread] = "m_loop"]
    /\ UNCHANGED <<config, other_agents, current_demands, backups, hash_db, production,
                   integrity_status, loc, env_writes, ticks>>

\* stop_monitoring(): monitor_active = False
CallStopMonitoring ==
    /\ MainMayCall
    /\ monitor_active' = FALSE
    /\ UNCHANGED <<config, other_agents, current_demands, backups, hash_db, production,
                   integrity_status, pc, loc, env_writes, ticks>>

\* ------------------------------------------------------ the environment
\* Another actor creates a backup artifact or changes the bytes of one.
EnvWrite ==
    /\ env_writes < MaxEnvWrites
    /\ env_writes' = env_writes + 1
    /\ \E a \in Artifacts, c \in Contents :
          /\ backups[a] # File(c)
          /\ backups' = [backups EXCEPT ![a] = File(c)]
    /\ UNCHANGED <<config, other_agents, current_demands, hash_db, production,
                   integrity_status, monitor_active, pc, loc, main_calls, ticks>>

\* ----------------------------------------------------------------- Next
ThreadStep(t) ==
    \/ CycleNext(t)
    \/ CycleRecord(t)
    \/ VerifyHash(t)
    \/ VerifyLoad(t)
    \/ VerifyCheck(t)
    \/ RestoreValid(t)
    \/ RestoreExists(t)
    \/ RestoreMkdir(t)
    \/ RestoreOpen(t)
    \/ RestoreWrite(t)
    \/ OrchestrateNext(t)
    \/ OrchestrateRecord(t)

Next ==
    \/ \E t \in Threads : ThreadStep(t)
    \/ \E t \in Monitors : MonitorLoop(t) \/ MonitorDetect(t) \/ MonitorSleep(t)
    \/ CallFullValidation
    \/ CallManualRestoration
    \/ CallStartMonitoring
    \/ CallStopMonitoring
    \/ EnvWrite

Spec == Init /\ [][Next]_vars

\* ------------------------------------------------- failures of the storage
\* Where an exception that nothing catches takes a thread: out of every call
\* to the API caller on the main thread, out of monitoring_loop on a monitoring
\* thread, which ends the thread.
Uncaught(t) == IF t = MainThread THEN "idle" ELSE "m_dead"
Raise(t) ==
    /\ Goto(t, Uncaught(t))
    /\ SetLocals(t, NoLocals)
    /\ UNCHANGED <<config, other_agents, current_demands, backups, hash_db, production,
                   integrity_status, monitor_active, counters>>

\* calculate_hash: open(file_path, "rb") or f.read raises an OSError (the path
\* is a directory, is not readable, fails while it is read).
HashError(t) ==
    /\ pc[t] = "v_hash"
    /\ PathExists(backups[loc[t].backup_file])
    /\ Raise(t)

\* open(self.config.hash_db, "r") raises an OSError other than FileNotFoundError,
\* or json.load raises on what it reads: only FileNotFoundError is caught.
LedgerReadError(t) ==
    /\ pc[t] = "v_load"
    /\ Raise(t)

\* open(self.config.hash_db, "w") raises an OSError: the ledger is not writable.
LedgerWriteError(t) ==
    /\ pc[t] = "v_check"
    /\ loc[t].backup_file \notin DOMAIN loc[t].known_hashes
    /\ Raise(t)

\* The steps of the program itself, on a backup store nobody else writes to.
NextProgram ==
    \/ \E t \in Threads : ThreadStep(t)
    \/ \E t \in Monitors : MonitorLoop(t) \/ MonitorDetect(t) \/ MonitorSleep(t)
    \/ CallFullValidation
    \/ CallManualRestoration
    \/ CallStartMonitoring
    \/ CallStopMonitoring

NextFault ==
    \/ NextProgram
    \/ \E t \in Threads : HashError(t) \/ LedgerReadError(t) \/ LedgerWriteError(t)

\* The system on a storage that can fail.
SpecFault == Init /\ [][NextFault]_vars

\* --------------------------------------------------- the end of __main__
\* The main thread leaves the script (after stop_monitoring and the last print):
\* the interpreter exits and stops the monitoring threads, which are daemon
\* threads, wherever they are.
ProcessExit ==
    /\ pc[MainThread] = "idle"
    /\ pc' = [t \in Threads |->
                 IF t = MainThread THEN "exited"
                 ELSE IF LoopAlive(t) THEN "killed" ELSE pc[t]]
    /\ loc' = [t \in Threads |->
                  IF t \in Monitors /\ LoopAlive(t) THEN NoLocals ELSE loc[t]]
    /\ UNCHANGED <<config, other_agents, current_demands, backups, hash_db, production,
                   integrity_status, monitor_active, counters>>

NextExit ==
    \/ NextProgram
    \/ ProcessExit

\* The system up to the exit of its process.
SpecExit == Init /\ [][NextExit]_vars

\* ------------------------------------- a backup store that loses files
\* Another actor removes a backup artifact.
EnvRemove ==
    /\ env_writes < MaxEnvWrites
    /\ env_writes' = env_writes + 1
    /\ \E a \in Artifacts :
          /\ backups[a].exists
          /\ backups' = [backups EXCEPT ![a] = NoFile]
    /\ UNCHANGED <<config, other_agents, current_demands, hash_db, production,
                   integrity_status, monitor_active, pc, loc, main_calls, ticks>>

NextRemove ==
    \/ CallFullValidation
    \/ CallManualRestoration
    \/ ThreadStep(MainThread)
    \/ EnvRemove

\* One caller, on a store from which artifacts are removed.
SpecRemove == Init /\ [][NextRemove]_vars

\* ------------------------------------------- a copy that never returns
\* shutil.copy blocks in a read or a write that the file system never
\* completes; restore_service has no timeout and nothing interrupts the call.
RestoreBlocks(t) ==
    /\ pc[t] = "r_write"
    /\ Goto(t, "r_blocked")
    /\ UNCHANGED <<config, other_agents, current_demands, backups, hash_db, production,
                   integrity_status, monitor_active, loc, counters>>

NextBlock ==
    \/ CallFullValidation
    \/ CallManualRestoration
    \/ ThreadStep(MainThread)
    \/ RestoreBlocks(MainThread)

\* One caller; a thread that can take a step of its call takes one.
SpecBlock ==
    Init /\ [][NextBlock]_vars /\ WF_vars(ThreadStep(MainThread))

\* ------------------------------------ prioritize_services on its own
\* The registries a critical_services.json can hold: up to three services, each
\* with a positive priority and a positive demand threshold.
ServiceOrder == <<"servicio_db", "servicio_api", "servicio_web">>
Thresholds == {50, 100}
Registries ==
    {DefaultServices} \cup
    UNION {
        { [i \in 1..n |-> [name |-> ServiceOrder[i], priority |-> f[i][1],
                           demand_threshold |-> f[i][2]]] :
            f \in [1..n -> (1..MaxPriority) \X Thresholds] } : n \in 1..3 }

\* The samples a demand source can give: a demand for some of the services.
Demands == {0, 5, 10, 150}
DemandSamples ==
    {SimulatedDemands} \cup
    UNION { [names -> Demands] : names \in SUBSET ServiceNames }

InitPrio ==
    \E services \in Registries, source \in DemandSamples :
        Constructed(services, source)

\* orchestration_agent.prioritize_services(), called on its own.
CallPrioritize ==
    /\ pc[MainThread] = "idle"
    /\ current_demands' = demand_source
    /\ SetLocals(MainThread, [NoLocals EXCEPT
            !.prioritized = PrioritizeServices(critical_services, demand_source)])
    /\ Goto(MainThread, "prioritized")
    /\ UNCHANGED <<config, other_agents, backups, hash_db, production, integrity_status,
                   monitor_active, counters>>

SpecPrio == InitPrio /\ [][CallPrioritize]_vars

\* ------------------------- prioritize_services on equal real priorities
\* Registries of two or three services whose effective priorities can be the
\* same real number: 1 * 50 / 30 = 5 * 50 / 150 = 5 * 100 / 300 ...
TiePriorities == {1, 5}
TieDemands == {30, 75, 150}
TieRegistries ==
    UNION {
        { [i \in 1..n |-> [name |-> ServiceOrder[i], priority |-> f[i][1],
                           demand_threshold |-> f[i][2]]] :
            f \in [1..n -> TiePriorities \X Thresholds] } : n \in 2..3 }

InitTie ==
    \E services \in TieRegistries, source \in [ServiceNames -> TieDemands] :
        Constructed(services, source)

SpecTie == InitTie /\ [][CallPrioritize]_vars

\* ----------------------------------------- one caller, any registry
\* The default services with any of the thresholds, and the demands around the
\* bounds of the restoration types: below and at 1.5 times each threshold.
RunRegistries ==
    {DefaultServices} \cup
    { [i \in 1..3 |-> [DefaultServices[i] EXCEPT !.demand_threshold = f[i]]] :
        f \in [1..3 -> Thresholds] }
ModeDemands == {0, 74, 75, 149, 150}
RunSamples == {SimulatedDemands} \cup [ServiceNames -> ModeDemands]

InitRun ==
    \E services \in RunRegistries, source \in RunSamples :
        Constructed(services, source)

\* The main thread alone calls full_validation_cycle and manual_restoration.
NextRun ==
    \/ CallFullValidation
    \/ CallManualRestoration
    \/ ThreadStep(MainThread)

SpecRun == InitRun /\ [][NextRun]_vars

\* ================================================================ claims
\* The default registry's services, and their demand and threshold as a run
\* samples them.
Db  == "servicio_db"
Api == "servicio_api"
Web == "servicio_web"
SampledDemand(name) == Get(demand_source, name, 0)
ThresholdOf(name) == ServiceData(critical_services, name).demand_threshold

\* Thread t takes this step.
Steps(t) == pc'[t] # pc[t]

\* Thread t returns from verify_backup in this step.
VerifyReturns(t) == pc[t] \in VerifyPcs /\ pc'[t] \notin VerifyPcs

\* C1 (tamper detection): a verify_backup call that began when the ledger held
\* an entry for the artifact, and that computed a digest different from that
\* entry, returns (False, "Hash no coincide"), and when it returns the ledger
\* still holds that entry for the artifact.
C1_TamperDetected ==
    [][\A t \in Threads :
          (/\ VerifyReturns(t)
           /\ loc[t].entry0 # {}
           /\ loc[t].current_hash # {}
           /\ loc[t].current_hash # loc[t].entry0)
          => /\ loc'[t].ret = Mismatch
             /\ Entry(hash_db', loc[t].backup_file) = loc[t].entry0]_vars

\* C2 (ledger write-once): no step removes an entry of the ledger or replaces
\* its digest by another one.
C2_LedgerWriteOnce ==
    [][\A a \in DOMAIN hash_db :
          a \in DOMAIN hash_db' /\ hash_db'[a] = hash_db[a]]_vars

\* C3 (no write on invalid backup): no step restore_service takes during its
\* integrity pre-check changes the production tree, and when the pre-check has
\* yielded NotFound or Mismatch restore_service returns (False, "Backup
\* inválido") to the run without having changed it.
C3_NoWriteOnInvalidBackup ==
    [][\A t \in Threads :
          /\ (Steps(t) /\ pc[t] \in VerifyPcs /\ loc[t].caller = "restore")
                => production' = production
          /\ (Steps(t) /\ pc[t] = "r_valid" /\ loc[t].ret \in {NotFound, Mismatch})
                => /\ production' = production
                   /\ pc'[t] = "o_record"
                   /\ loc'[t].ret = InvalidBackup]_vars

\* C3's case: restore_service has returned "Backup inválido" for an artifact
\* that is in the store and whose digest is not the ledger's.
C3_Witness ==
    \E t \in Threads :
        /\ pc[t] = "o_record"
        /\ loc[t].ret = InvalidBackup
        /\ backups[loc[t].backup_file].exists
        /\ Entry(hash_db, loc[t].backup_file)
              # {CalculateHash(backups[loc[t].backup_file])}

\* C4 (orchestration mutual exclusion): at most one thread is inside
\* orchestrate_restorations.
C4_OneActiveRun ==
    Cardinality({t \in Threads : InOrchestrate(t)}) <= 1

\* C5 (ledger serialization): at most one thread is between its read of the
\* ledger and its check-and-write of it.
C5_LedgerSerialized ==
    Cardinality({t \in Threads : pc[t] = "v_check"}) <= 1

\* C6 (atomic restore): every file under a production target is a complete
\* artifact content; a file that is only partly written is never there.
C6_AtomicRestore ==
    \A s \in ServiceNames : \A name \in {"partial_restore", "full_restore"} :
        production[s][name].exists => production[s][name].data \in Contents

\* The services of prioritized up to position k.
Upto(order, k) == {order[j] : j \in 1..k}

\* A result that ends a run early: a success of a service whose sampled demand
\* is strictly below its threshold.
EndsRun(results, name) ==
    /\ name \in DOMAIN results
    /\ results[name].success
    /\ SampledDemand(name) < ThresholdOf(name)

\* C7 (early exit): while a service is with restore_service, no service handled
\* before it in the run was restored successfully with its demand below its
\* threshold; the result map holds exactly the services handled so far; and a
\* returned result map that holds such a service holds exactly the services of
\* the priority order up to and including it.
C7_EarlyExit ==
    \A t \in Threads :
        LET results == loc[t].results
        IN  /\ InOrchestrate(t) =>
                /\ DOMAIN results = Upto(loc[t].prioritized, loc[t].i)
                /\ \A name \in DOMAIN results : ~EndsRun(results, name)
            /\ (~InOrchestrate(t) /\ results # EmptyMap) =>
                LET order == PrioritizeServices(critical_services, demand_source)
                IN  \A k \in 1..Len(order) :
                        EndsRun(results, order[k])
                            => DOMAIN results = Upto(order, k)

\* C7's case: a run has returned after servicio_api, restored with demand 65
\* below its threshold 80, and servicio_web is not in the result map.
C7_Witness ==
    \E t \in Threads :
        /\ ~InOrchestrate(t)
        /\ EndsRun(loc[t].results, Api)
        /\ DOMAIN loc[t].results = {Db, Api}

\* effectivePriority = staticPriority / max(0.1, currentDemand / demandThreshold),
\* as a fraction: 10 * priority when the ratio is at most 0.1, else
\* priority * threshold / demand.
EffectivePriority(data, demand) ==
    IF 10 * demand <= data.demand_threshold
    THEN <<10 * data.priority, 1>>
    ELSE <<data.priority * data.demand_threshold, demand>>
EffectivePriorityOf(name) ==
    EffectivePriority(ServiceData(critical_services, name), SampledDemand(name))

\* C8 (priority order): in the order prioritize_services returns, the effective
\* priority of a service is at most that of every service after it.
C8_PriorityOrder ==
    pc[MainThread] = "prioritized" =>
        LET order == loc[MainThread].prioritized
        IN  \A i, j \in 1..Len(order) :
                i < j => LET a == EffectivePriorityOf(order[i])
                             b == EffectivePriorityOf(order[j])
                         IN  a[1] * b[2] <= b[1] * a[2]

\* C8's case: an order of three services that is not the registry's order, with
\* three different effective priorities.
C8_Witness ==
    /\ pc[MainThread] = "prioritized"
    /\ loc[MainThread].prioritized = <<Web, Db, Api>>
    /\ LET a == EffectivePriorityOf(Web)
           b == EffectivePriorityOf(Db)
           c == EffectivePriorityOf(Api)
       IN  a[1] * b[2] < b[1] * a[2] /\ b[1] * c[2] < c[1] * b[2]

\* C9 as stated (concrete scenario): every run has the order [db, api, web],
\* goes on after db, and never passes servicio_web to restore_service.
C9_WebNeverRestored ==
    \A t \in Threads :
        /\ InOrchestrate(t) =>
              /\ loc[t].prioritized = <<Db, Api, Web>>
              /\ loc[t].service # Web
        /\ ~InOrchestrate(t) => DOMAIN loc[t].results # {Db}

\* C9 amended: every run has the order [db, api, web] and goes on after db;
\* servicio_web is passed to restore_service only after servicio_api's restore
\* failed; a run in which servicio_api was restored returns without
\* servicio_web, and one in which its restore failed returns with servicio_web.
C9_WebOnlyAfterApiFailed ==
    \A t \in Threads :
        /\ InOrchestrate(t) =>
              /\ loc[t].prioritized = <<Db, Api, Web>>
              /\ loc[t].service = Api => Db \in DOMAIN loc[t].results
              /\ loc[t].service = Web =>
                    /\ Api \in DOMAIN loc[t].results
                    /\ ~loc[t].results[Api].success
        /\ ~InOrchestrate(t) =>
              /\ DOMAIN loc[t].results # {Db}
              /\ (Api \in DOMAIN loc[t].results /\ loc[t].results[Api].success)
                    => DOMAIN loc[t].results = {Db, Api}
              /\ (Api \in DOMAIN loc[t].results /\ ~loc[t].results[Api].success)
                    => DOMAIN loc[t].results = {Db, Api, Web}

\* C9's case: a run restored servicio_db (over its threshold) and servicio_api
\* and returned.
C9_Witness ==
    \E t \in Threads :
        /\ ~InOrchestrate(t)
        /\ DOMAIN loc[t].results = {Db, Api}
        /\ loc[t].results[Db].success
        /\ loc[t].results[Api].success

\* C10 (idempotent verification): a verify_backup call that began when the
\* ledger held an entry for the artifact, and that computed the digest of that
\* entry, returns (True, "Integridad verificada") and leaves the ledger as it is.
C10_IdempotentVerify ==
    [][\A t \in Threads :
          (/\ VerifyReturns(t)
           /\ loc[t].entry0 # {}
           /\ loc[t].current_hash = loc[t].entry0)
          => /\ loc'[t].ret = Verified
             /\ hash_db' = hash_db
             /\ Entry(hash_db', loc[t].backup_file) = loc[t].entry0]_vars

\* C11 (trust on first use): a verify_backup call on an artifact that is in the
\* store hashes the bytes it finds there; when the ledger it then reads has no
\* entry for the artifact, the call returns (True, "Nuevo backup registrado")
\* and leaves the ledger holding, for that artifact, the digest it computed.
C11_RegisterOnFirstUse ==
    [][\A t \in Threads :
          LET file == loc[t].backup_file
          IN  /\ (Steps(t) /\ pc[t] = "v_hash" /\ backups[file].exists)
                    => /\ pc'[t] = "v_load"
                       /\ loc'[t].current_hash = {CalculateHash(backups[file])}
              /\ (Steps(t) /\ pc[t] = "v_load" /\ file \notin DOMAIN hash_db)
                    => /\ pc'[t] = "v_check"
                       /\ file \notin DOMAIN loc'[t].known_hashes
                       /\ loc'[t].current_hash = loc[t].current_hash
              /\ (Steps(t) /\ pc[t] = "v_check"
                           /\ file \notin DOMAIN loc[t].known_hashes)
                    => /\ loc'[t].ret = Registered
                       /\ pc'[t] = AfterVerify(loc[t])
                       /\ Entry(hash_db', file) = loc[t].current_hash]_vars

\* C11's case: a call has just returned "Nuevo backup registrado" and the ledger
\* holds the digest of the artifact's bytes.
C11_Witness ==
    \E t \in Threads :
        /\ pc[t] \in {"c_record", "r_valid"}
        /\ loc[t].ret = Registered
        /\ backups[loc[t].backup_file].exists
        /\ Entry(hash_db, loc[t].backup_file)
              = {CalculateHash(backups[loc[t].backup_file])}

\* C12 (NotFound has no side effect): a verify_backup call on an artifact that
\* is not in the backup store returns (False, "Backup no encontrado") at once
\* and changes neither the ledger nor the backup store nor the production tree.
C12_NotFoundNoSideEffect ==
    [][\A t \in Threads :
          (Steps(t) /\ pc[t] = "v_hash" /\ ~backups[loc[t].backup_file].exists)
          => /\ loc'[t].ret = NotFound
             /\ pc'[t] = AfterVerify(loc[t])
             /\ hash_db' = hash_db
             /\ backups' = backups
             /\ production' = production]_vars

\* C12's case: verify_backup has just returned "Backup no encontrado" for an
\* artifact that is not in the store.
C12_Witness ==
    \E t \in Threads :
        /\ pc[t] \in {"c_record", "r_valid"}
        /\ loc[t].ret = NotFound
        /\ ~backups[loc[t].backup_file].exists

\* C13 (single monitoring loop): at most one thread is running monitoring_loop.
C13_OneMonitoringLoop ==
    Cardinality({t \in Monitors : LoopAlive(t)}) <= 1

\* Thread t is inside full_validation_cycle.
InCycle(t) ==
    \/ pc[t] \in {"c_next", "c_record"}
    \/ pc[t] \in VerifyPcs /\ loc[t].caller = "cycle"

\* C14 (graceful stop): once stop_monitoring has set monitor_active to False, a
\* monitoring thread that is inside a validation cycle or a restoration run
\* goes on running: no step takes it out of that unit of work by stopping it.
C14_GracefulStop ==
    [][\A t \in Monitors :
          (~monitor_active /\ (InCycle(t) \/ InOrchestrate(t)) /\ Steps(t))
          => pc'[t] \notin NotRunning]_vars

\* C15 (monitoring survives a bad run): while monitoring is active, no step in
\* which a monitoring thread reads or writes the ledger for a restoration run
\* ends the thread: the thread is still running monitoring_loop after the step.
C15_MonitoringSurvives ==
    [][\A t \in Monitors :
          (/\ monitor_active
           /\ InOrchestrate(t)
           /\ pc[t] \in {"v_load", "v_check"}
           /\ Steps(t))
          => pc'[t] \notin NotRunning]_vars

\* C16 (validation-cycle isolation): every step verify_backup takes for
\* full_validation_cycle either stays inside verify_backup or returns a result
\* to the cycle, which records it and still has the rest of its listing to
\* visit; the cycle is never left from inside the verification of an artifact.
C16_CycleIsolation ==
    [][\A t \in Threads :
          (Steps(t) /\ pc[t] \in VerifyPcs /\ loc[t].caller = "cycle")
          => \/ pc'[t] \in VerifyPcs
             \/ /\ pc'[t] = "c_record"
                /\ loc'[t].ret[1] \in BOOLEAN
                /\ loc'[t].todo = loc[t].todo]_vars

\* C17 (run isolation): when restore_service has returned a failure to a run,
\* the run records it as that service's entry, with the failure's message, and
\* goes to the head of its loop with the same priority order and the next
\* position; from the head of the loop it passes the next service of the order
\* to restore_service; and no step takes a thread out of a run except the
\* return of the result map.
C17_RunIsolation ==
    [][\A t \in Threads :
          LET l == loc[t]
          IN  /\ (Steps(t) /\ pc[t] = "o_record" /\ ~l.ret[1])
                    => /\ pc'[t] = "o_next"
                       /\ loc'[t].results =
                             Put(l.results, l.service,
                                 [success |-> FALSE, message |-> l.ret[2]])
                       /\ loc'[t].prioritized = l.prioritized
                       /\ loc'[t].i = l.i + 1
              /\ (Steps(t) /\ pc[t] = "o_next" /\ l.i < Len(l.prioritized))
                    => /\ pc'[t] = "v_hash"
                       /\ loc'[t].service = l.prioritized[l.i + 1]
                       /\ loc'[t].results = l.results
              /\ (Steps(t) /\ InOrchestrate(t))
                    => \/ pc'[t] \in OrchestratePcs \cup VerifyPcs
                       \/ /\ pc'[t] = AfterOrchestrate(t)
                          /\ pc[t] \in {"o_next", "o_record"}
                          /\ loc'[t].results # EmptyMap]_vars

\* C17's case: a run has returned a result map in which servicio_db failed with
\* a write error, servicio_api failed, and servicio_web, handled last, failed
\* as an invalid backup.
C17_Witness ==
    \E t \in Threads :
        /\ ~InOrchestrate(t)
        /\ DOMAIN loc[t].results = {Db, Api, Web}
        /\ loc[t].results[Db] = [success |-> FALSE, message |-> WriteError[2]]
        /\ ~loc[t].results[Api].success
        /\ loc[t].results[Web] = [success |-> FALSE, message |-> InvalidBackup[2]]

\* What the demand source gives for a service (0 when it gives nothing).
DemandOf(name) == IF name \in DOMAIN demand_source THEN demand_source[name] ELSE 0

\* C18 (mode boundary): a production target holds a partial_restore file only
\* of a service whose demand is below 1.5 times its threshold and a
\* full_restore file only of one whose demand is at least that; and a restore
\* that has just succeeded has written the file of the type the bound selects.
C18_ModeBoundary ==
    /\ \A s \in ServiceNames :
          /\ production[s].partial_restore.exists
                => 2 * DemandOf(s) < 3 * ThresholdOf(s)
          /\ production[s].full_restore.exists
                => 2 * DemandOf(s) >= 3 * ThresholdOf(s)
    /\ \A t \in Threads :
          (pc[t] = "o_record" /\ loc[t].ret = Restored)
          => LET s == loc[t].service
             IN  IF 2 * DemandOf(s) < 3 * ThresholdOf(s)
                 THEN production[s].partial_restore.exists
                 ELSE production[s].full_restore.exists

\* C18's case: with threshold 100 for both, servicio_db at demand 150 (1.5
\* times the threshold) was restored in full and servicio_api at demand 149 in
\* part.
C18_Witness ==
    /\ ThresholdOf(Db) = 100 /\ DemandOf(Db) = 150
    /\ ThresholdOf(Api) = 100 /\ DemandOf(Api) = 149
    /\ production[Db].full_restore.exists
    /\ ~production[Db].partial_restore.exists
    /\ production[Api].partial_restore.exists
    /\ ~production[Api].full_restore.exists

\* C19 (ratio floor): for every service whose demand is at most a tenth of its
\* threshold, the priority prioritize_services computes is 10 times the static
\* priority, the same it computes for demand 0.
C19_RatioFloor ==
    pc[MainThread] = "prioritized" =>
        LET list == PriorityList(critical_services, demand_source)
        IN  \A i \in 1..Len(critical_services) :
                LET data == critical_services[i]
                    zero == Priority(data, 0)
                IN  10 * DemandOf(data.name) <= data.demand_threshold
                    => /\ list[i][1][1] = 10 * data.priority * list[i][1][2]
                       /\ list[i][1][1] * zero[2] = zero[1] * list[i][1][2]

\* C19's case: two services of the same static priority and threshold, one
\* with demand 0 and one with demand exactly a tenth of the threshold, have
\* been given priorities by prioritize_services.
C19_Witness ==
    /\ pc[MainThread] = "prioritized"
    /\ \E i, j \in 1..Len(critical_services) :
          /\ critical_services[i].priority = critical_services[j].priority
          /\ critical_services[i].demand_threshold
                = critical_services[j].demand_threshold
          /\ critical_services[i].name \in DOMAIN demand_source
          /\ DemandOf(critical_services[i].name) = 0
          /\ 10 * DemandOf(critical_services[j].name)
                = critical_services[j].demand_threshold

\* The order as a function of the registry and the demand alone: a service
\* stands behind the services of smaller effective priority and, among those
\* of the same effective priority, behind those whose double is smaller and
\* those of the same double that the registry names before it.
ErrorOf(services, i) ==
    RoundingError(services[i].priority, services[i].demand_threshold,
                  DemandOf(services[i].name))
Before(services, j, i) ==
    LET a == EffectivePriority(services[j], DemandOf(services[j].name))
        b == EffectivePriority(services[i], DemandOf(services[i].name))
    IN  \/ a[1] * b[2] < b[1] * a[2]
        \/ /\ a[1] * b[2] = b[1] * a[2]
           /\ \/ ErrorOf(services, j) < ErrorOf(services, i)
              \/ ErrorOf(services, j) = ErrorOf(services, i) /\ j < i
Rank(services, i) ==
    Cardinality({j \in 1..Len(services) : Before(services, j, i)}) + 1
RankOrder(services) ==
    [k \in 1..Len(services) |->
        services[CHOOSE i \in 1..Len(services) : Rank(services, i) = k].name]

\* C20 (determinism): in every run, the first or a later one, whatever the
\* ledger, the stores and the results of earlier calls, the priority order is
\* the same function of the registry and the demand sample, and the demand the
\* run works with is that sample.
C20_Determinism ==
    InOrchestrate(MainThread) =>
        /\ loc[MainThread].prioritized = RankOrder(critical_services)
        /\ current_demands = demand_source

\* C20's case: a second call, made after a first one has filled the ledger and
\* written to the production tree, is in a run whose order is not the
\* registry's order.
C20_Witness ==
    /\ InOrchestrate(MainThread)
    /\ main_calls = MaxMainCalls
    /\ hash_db # EmptyMap
    /\ \E s \in ServiceNames : production[s].dir
    /\ loc[MainThread].prioritized = <<Web, Api, Db>>

\* The place of a service in the registry.
RegistryIndex(name) ==
    CHOOSE i \in 1..Len(critical_services) : critical_services[i].name = name

Listed(listing) == {listing[k] : k \in 1..Len(listing)}

\* Thread t returns from full_validation_cycle in this step.
CycleReturns(t) == pc[t] = "c_next" /\ loc[t].todo = <<>> /\ Steps(t)

\* C22 (full validation coverage): when full_validation_cycle returns, every
\* artifact of the listing it took has an entry in the ledger and a status in
\* the map it returns.
C22_FullCoverage ==
    [][\A t \in Threads :
          CycleReturns(t)
          => \A a \in Listed(loc[t].listing) :
                /\ a \in DOMAIN hash_db'
                /\ a \in DOMAIN integrity_status']_vars

\* C23 (per-cycle snapshot): the keys of the status map full_validation_cycle
\* returns are the artifacts of the listing that cycle took.
C23_SnapshotPerCycle ==
    [][\A t \in Threads :
          CycleReturns(t)
          => DOMAIN integrity_status' = Listed(loc[t].listing)]_vars

\* C24 (tick ordering): a monitoring thread reaches the detector only by
\* returning from the validation cycle, leaves it in one step, starts
\* orchestrate_restorations at that step exactly when the detector returned
\* true, starts it nowhere else, and reaches the sleep only from there.
C24_TickOrdering ==
    [][\A t \in Monitors :
          /\ (pc'[t] = "m_detect" /\ pc[t] # "m_detect") => CycleReturns(t)
          /\ (pc[t] = "m_detect" /\ Steps(t))
             => /\ pc'[t] \in {"o_next", "m_sleep"}
                /\ pc'[t] = "o_next" <=> DetectIncident
          /\ (pc'[t] = "o_next" /\ ~InOrchestrate(t)) => pc[t] = "m_detect"
          /\ (pc'[t] = "m_sleep" /\ pc[t] # "m_sleep")
             => pc[t] = "m_detect" \/ InOrchestrate(t)]_vars

\* A tick that went through validation, detection and an orchestration run
\* that restored something, and now sleeps.
C24_Witness ==
    \E t \in Monitors :
        /\ pc[t] = "m_sleep"
        /\ loc[t].results # EmptyMap
        /\ DOMAIN integrity_status # {}

\* C25 (cooperative cancellation between steps): a monitoring thread whose
\* validation cycle returns after stop_monitoring cleared the flag exits there,
\* and goes on neither to incident detection nor to orchestration.
C25_CancelBetweenSteps ==
    [][\A t \in Monitors :
          (~monitor_active /\ CycleReturns(t)) => pc'[t] = "m_exit"]_vars

\* C26 (single-key ledger update): the step of verify_backup that registers or
\* compares the digest of one artifact leaves the ledger entry of every other
\* artifact as it was.
C26_SingleKeyUpdate ==
    [][\A t \in Threads :
          (pc[t] = "v_check" /\ Steps(t))
          => \A k \in DOMAIN hash_db \ {loc[t].backup_file} :
                /\ k \in DOMAIN hash_db'
                /\ hash_db'[k] = hash_db[k]]_vars

\* The demand of a service in the sample a run took for its priority order.
SnapshotDemand(t, service) ==
    IF service \in DOMAIN loc[t].demands THEN loc[t].demands[service] ELSE 0

\* Thread t picks the next service of its run in this step.
PicksService(t) == pc[t] = "o_next" /\ pc'[t] = "v_hash"

\* C27 (consistent demand snapshot): the order of a run is the order of the
\* demands it sampled at its start, the demand it reads for each service it
\* picks is the one of that sample, and the mode and the early-exit test use it.
C27_ConsistentSnapshot ==
    [][\A t \in Threads :
          /\ PicksService(t)
             => /\ loc[t].prioritized =
                       PrioritizeServices(critical_services, loc[t].demands)
                /\ loc'[t].demands = loc[t].demands
                /\ loc'[t].current_demand = SnapshotDemand(t, loc'[t].service)
                /\ loc'[t].partial =
                       IsPartial(SnapshotDemand(t, loc'[t].service),
                                 ThresholdOf(loc'[t].service))
          /\ (pc[t] = "o_record" /\ Steps(t))
             => loc[t].current_demand = SnapshotDemand(t, loc[t].service)]_vars

\* Two runs overlap: one is at its second service, the other has sampled the
\* demand and not picked a service yet.
C27_Witness ==
    \E t, u \in Threads :
        /\ t # u
        /\ pc[t] = "v_hash" /\ loc[t].caller = "restore" /\ loc[t].i = 1
        /\ pc[u] = "o_next" /\ loc[u].i = 0
        /\ loc[u].prioritized # <<>>

\* C28 (bounded restore): an orchestrate_restorations run always terminates.
C28_BoundedRestore ==
    InOrchestrate(MainThread) ~> ~InOrchestrate(MainThread)

\* The production file a restore of thread t writes.
TargetOf(t) == production[loc[t].service][RestoreName(loc[t].partial)]

\* C29 (write failure without retry): a copy that did not put the backup's
\* bytes in the production target returns a failure, the run records for the
\* service the result restore_service returned, and the run never calls
\* restore_service for a service that already has a result.
C29_WriteFailureNoRetry ==
    [][\A t \in Threads :
          /\ (pc[t] = "r_write" /\ Steps(t))
             => /\ pc'[t] = "o_record"
                /\ loc'[t].ret[1]
                   => TargetOf(t)' = File(backups[loc[t].backup_file].data)
          /\ (pc[t] = "o_record" /\ Steps(t))
             => /\ loc[t].service \in DOMAIN loc'[t].results
                /\ loc'[t].results[loc[t].service] =
                       [success |-> loc[t].ret[1], message |-> loc[t].ret[2]]
          /\ PicksService(t)
             => loc'[t].service \notin DOMAIN loc[t].results]_vars

\* A run recorded the failed write of one service and went on to another.
C29_Witness ==
    \E t \in Threads : \E s \in DOMAIN loc[t].results :
        /\ loc[t].results[s] =
               [success |-> WriteError[1], message |-> WriteError[2]]
        /\ pc[t] \in RestorePcs
        /\ loc[t].service # s

\* C30 (sequential restores in priority order): a run is in at most one
\* restore_service call, which is for the service at position i + 1 of the
\* order computed from its demand sample, and at that time the services with a
\* result are exactly those at positions 1..i.
C30_SequentialByPriority ==
    \A t \in Threads :
        InOrchestrate(t) =>
            LET l == loc[t]
            IN  /\ l.prioritized =
                       PrioritizeServices(critical_services, l.demands)
                /\ l.i <= Len(l.prioritized)
                /\ DOMAIN l.results = Upto(l.prioritized, l.i)
                /\ pc[t] # "o_next"
                   => /\ l.i < Len(l.prioritized)
                      /\ l.service = l.prioritized[l.i + 1]

\* The restore of the second service of the order is writing, after the
\* restore of the first one returned.
C30_Witness ==
    \E t \in Threads :
        /\ pc[t] = "r_write"
        /\ loc[t].i = 1
        /\ loc[t].service = loc[t].prioritized[2]
        /\ DOMAIN loc[t].results = {loc[t].prioritized[1]}

\* The restore targets of a service.
RestoreNames == {RestoreName(TRUE), RestoreName(FALSE)}

\* C31 (own artifact only): the artifact a run hands to restore_service for
\* service s is named s, "_backup_", the current date, ".bak"; and a step that
\* changes a production file of s is the copy of a restore of s from an
\* artifact named for s.
C31_OwnArtifactOnly ==
    [][/\ \A t \in Threads :
             PicksService(t)
             => loc'[t].backup_file =
                    <<loc'[t].service, "_backup_", Today, ".bak">>
       /\ \A s \in ServiceNames : \A n \in RestoreNames :
             production'[s][n] # production[s][n]
             => \E t \in Threads :
                   /\ pc[t] \in {"r_open", "r_write"} /\ Steps(t)
                   /\ loc[t].service = s
                   /\ loc[t].backup_file[1] = s
                   /\ production'[s][n].data \in
                          {<<>>, backups[loc[t].backup_file].data}]_vars

\* The second service of the default registry was restored from its own
\* artifact.
C31_Witness ==
    \E t \in Threads :
        /\ pc[t] = "o_record"
        /\ loc[t].service = "servicio_api"
        /\ loc[t].ret = Restored
        /\ TargetOf(t) = File(backups[BackupFile("servicio_api", Today)].data)

\* C32 (read-only registry): no step changes the service registry.
C32_ReadOnlyRegistry == [][critical_services' = critical_services]_vars

\* A monitoring tick went through validation and orchestration, the main
\* thread made its calls, and production was written.
C32_Witness ==
    /\ critical_services = DefaultServices
    /\ main_calls = MaxMainCalls
    /\ \E t \in Monitors : pc[t] = "m_sleep" /\ loc[t].results # EmptyMap
    /\ \E s \in ServiceNames : production[s].dir

\* C33 (restored content is the verified content): when restore_service
\* returns success, the digest of the bytes in the production target is the
\* digest the ledger stores for the artifact.
C33_RestoredIsVerified ==
    [][\A t \in Threads :
          (pc[t] = "r_write" /\ Steps(t) /\ loc'[t].ret[1]
             /\ loc[t].backup_file \in DOMAIN hash_db)
          => CalculateHash(TargetOf(t)') = hash_db[loc[t].backup_file]]_vars

\* C34 (no early exit on failure): a run that has services left after the one
\* it records goes back to the head of its loop when that restore failed,
\* whatever the demand, and leaves the loop there only when the restore
\* succeeded and the service's demand is below its threshold.
C34_NoEarlyExitOnFailure ==
    [][\A t \in Threads :
          LET l == loc[t]
          IN  (pc[t] = "o_record" /\ Steps(t) /\ l.i + 1 < Len(l.prioritized))
              => /\ ~l.ret[1] => pc'[t] = "o_next"
                 /\ pc'[t] # "o_next"
                    => /\ l.ret[1]
                       /\ DemandOf(l.service) < ThresholdOf(l.service)]_vars

\* A returned run in which a restore failed for a service whose demand is
\* below its threshold, and the next service of the order was handled.
C34_Witness ==
    /\ ~InOrchestrate(MainThread)
    /\ LET results == loc[MainThread].results
           order == PrioritizeServices(critical_services, demand_source)
       IN  \E k \in 1..(Len(order) - 1) :
               /\ order[k] \in DOMAIN results
               /\ ~results[order[k]].success
               /\ DemandOf(order[k]) < ThresholdOf(order[k])
               /\ order[k + 1] \in DOMAIN results

\* The names of the registered services.
RegisteredNames ==
    {critical_services[k].name : k \in 1..Len(critical_services)}

\* C35 (order is a permutation of the registry): the list prioritize_services
\* returns has one position for every registered service, no service twice,
\* and no name that is not registered.
C35_OrderIsPermutation ==
    pc[MainThread] = "prioritized" =>
        LET order == loc[MainThread].prioritized
        IN  /\ Len(order) = Len(critical_services)
            /\ {order[k] : k \in 1..Len(order)} = RegisteredNames
            /\ \A i, j \in 1..Len(order) : order[i] = order[j] => i = j

\* Three services ordered on a sample that has a demand for one of them only,
\* in an order that is not the registry's.
C35_Witness ==
    /\ pc[MainThread] = "prioritized"
    /\ Len(critical_services) = 3
    /\ Cardinality(DOMAIN demand_source) = 1
    /\ loc[MainThread].prioritized # RegistryOrder(critical_services, demand_source)

\* Thread t takes a step of verify_backup or of full_validation_cycle.
ValidationStep(t) ==
    /\ Steps(t)
    /\ \/ pc[t] \in VerifyPcs
       \/ InCycle(t)
       \/ pc'[t] = "c_next"

\* C36 (validation does not touch production): a step of verify_backup or of
\* full_validation_cycle leaves the production tree, the backup store, the
\* registry and the demand sample as they are.
C36_ValidationFrame ==
    [][\A t \in Threads :
          ValidationStep(t)
          => /\ production' = production
             /\ backups' = backups
             /\ critical_services' = critical_services
             /\ current_demands' = current_demands
             /\ monitor_active' = monitor_active]_vars

\* A validation cycle has returned: it wrote the ledger and the status map,
\* and the production tree and the backup store are as they were constructed.
C36_Witness ==
    /\ pc[MainThread] = "idle"
    /\ DOMAIN integrity_status = {a \in Artifacts : InitialBackups[a].exists}
    /\ DOMAIN hash_db = DOMAIN integrity_status
    /\ backups = InitialBackups
    /\ production = [s \in ServiceNames |-> NoTarget]

\* ====================================================== cr_agente_4.py
\* A path under watch_dir is the sequence of its name and its suffixes.  Of
\* the files other programs write, one is small and one is over a megabyte.
SmallFile == <<"small">>
LargeFile == <<"large">>
Originals == {SmallFile, LargeFile}

\* analyze_flow: size > 1_000_000 and (hour < 8 or hour > 18), the hour being
\* whatever it is; the token of a small file stays under the size.
FlowVerdicts(path) == IF path[1] = LargeFile[1] THEN BOOLEAN ELSE {FALSE}

\* path + ".enc"
EncPath(path) == Append(path, ".enc")

\* open(path, 'wb') raises OSError (file name too long).
NameTooLong(path) == Len(path) - 1 > MaxSuffixes

\* The events the observer queues for a file written under watch_dir
\* (recursive=True): created and modified for a new file, modified for one
\* that was there.
EventsOfWrite(path, dir) ==
    IF path \in dir
    THEN << [kind |-> "modified", src_path |-> path] >>
    ELSE << [kind |-> "created", src_path |-> path],
            [kind |-> "modified", src_path |-> path] >>

\* Another program creates or rewrites a file in the watched directory.
ExternalWrite ==
    /\ external_events < MaxExternalEvents
    /\ external_events' = external_events + 1
    /\ \E path \in Originals :
          /\ watch_dir' = watch_dir \cup {path}
          /\ event_queue' = event_queue \o EventsOfWrite(path, watch_dir)
    /\ UNCHANGED <<recover, observer, identify, detect>>

\* on_created / on_modified: process_file(event.src_path).  _read_file raises
\* when the path is gone and _write_file when the new name is refused; nothing
\* catches either, so the dispatching thread of the observer ends.  Otherwise
\* path + ".enc" is written next to the file, and block_exfiltration removes
\* the original when analyze_flow finds the flow suspicious (size and hour).
ProcessFile ==
    /\ observer = "running"
    /\ event_queue # <<>>
    /\ LET path == Head(event_queue).src_path
       IN  IF path \notin watch_dir \/ NameTooLong(EncPath(path))
           THEN /\ observer' = "dead"
                /\ event_queue' = Tail(event_queue)
                /\ UNCHANGED watch_dir
           ELSE /\ \E suspicious \in FlowVerdicts(path) :
                      watch_dir' = (watch_dir \cup {EncPath(path)})
                                      \ (IF suspicious THEN {path} ELSE {})
                /\ event_queue' =
                       Tail(event_queue) \o EventsOfWrite(EncPath(path), watch_dir)
                /\ UNCHANGED observer
    /\ UNCHANGED <<recover, external_events, identify, detect>>

NextWatch ==
    \/ ExternalWrite
    \/ ProcessFile

\* The observer's thread handles a queued event when there is one.
SpecWatch == Init /\ [][NextWatch]_vars /\ WF_vars(ProcessFile)

\* Every queued event has been handled and the observer still runs.
Quiescent == event_queue = <<>> /\ observer = "running"

\* C37 (file-event processing quiesces): once the event of a small file that
\* another program wrote is queued, the agent comes to a state in which no
\* event is left to handle and its observer runs.
C37_Quiesces ==
    (event_queue # <<>> /\ SmallFile \in watch_dir) ~> Quiescent

\* ====================================================== cr_agente_1.py
\* _scan_network: what a finding can be.  threat_level is kept in tenths.
NodeIds == {"node-1", "node-2"}
Metadatas ==
    {[ip |-> "192.168.1.1", version |-> v] : v \in {"v1.0", "v2.0"}}
FactorSets == [vulnerabilities : {0, 5}, threat_level : {0, 9}]
Findings ==
    [id : NodeIds, kind : {"asset"}, metadata : Metadatas, factors : FactorSets]

\* The lists of findings a scan can return.
ScanResults ==
    UNION {[1..n -> Findings] : n \in 1..MaxFindings}

\* Asset.evaluate_risk: min(vulnerabilities * 5 + threat_level * 10, 100)
RiskScore(factors) ==
    LET score == factors.vulnerabilities * 5 + factors.threat_level
    IN  IF score < 100 THEN score ELSE 100

\* Asset._assign_criticality
Criticality(risk_score) ==
    IF risk_score >= 75 THEN "high"
    ELSE IF risk_score >= 40 THEN "medium"
    ELSE "low"

\* _make_asset(data) followed by asset.evaluate_risk(data['factors'])
MakeAsset(data) ==
    [kind        |-> data.kind,
     metadata    |-> data.metadata,
     risk_score  |-> RiskScore(data.factors),
     criticality |-> Criticality(RiskScore(data.factors))]

\* dict.update
Update(old, new) ==
    [k \in DOMAIN old \cup DOMAIN new |->
        IF k \in DOMAIN new THEN new[k] ELSE old[k]]

\* Catalog.add_or_update, under the catalog's lock.
AddOrUpdate(catalog, id, asset) ==
    IF id \in DOMAIN catalog
    THEN [catalog EXCEPT ![id].metadata = Update(@, asset.metadata)]
    ELSE Put(catalog, id, asset)

\* found = self._scan_network()
ScanNetwork ==
    /\ found = <<>>
    /\ scans < MaxScans
    /\ scans' = scans + 1
    /\ found' \in ScanResults
    /\ UNCHANGED <<recover, protect, store, detect>>

\* One iteration of for data in found.
ProcessFinding ==
    /\ found # <<>>
    /\ store' = AddOrUpdate(store, Head(found).id, MakeAsset(Head(found)))
    /\ found' = Tail(found)
    /\ UNCHANGED <<recover, protect, scans, detect>>

NextCatalog ==
    \/ ScanNetwork
    \/ ProcessFinding

SpecCatalog == Init /\ [][NextCatalog]_vars

\* C38 (catalog stays current): after a finding is processed, the catalog has
\* an entry for its id whose metadata, risk score and criticality are those
\* computed from that finding.
C38_CatalogCurrent ==
    [][(found # <<>> /\ found' = Tail(found))
       => LET data == Head(found)
          IN  /\ data.id \in DOMAIN store'
              /\ \A k \in DOMAIN data.metadata :
                    store'[data.id].metadata[k] = data.metadata[k]
              /\ store'[data.id].risk_score = RiskScore(data.factors)
              /\ store'[data.id].criticality =
                     Criticality(RiskScore(data.factors))]_vars

\* ====================================================== cr_agente_6.py
\* fetch_feed: the raw severities of the simulated indicators (1 to 10).
RawSeverities == {1, 7, 10}

\* The n-th raw indicator the feed agent collects; seq stands for the identity
\* of the event (its place in the feed and its timestamp).
RawIndicator(n, severity) ==
    [seq |-> n, ioc |-> "evil.com", type |-> "domain", raw_severity |-> severity]

\* ThreatNormalizationAgent.normalize; severity_score, raw_severity / 10.0, is
\* kept in tenths.
Normalize(raw_ioc) ==
    [seq            |-> raw_ioc.seq,
     indicator      |-> raw_ioc.ioc,
     category       |-> raw_ioc.type,
     severity_score |-> raw_ioc.raw_severity]

\* PrioritizationAgent(threshold=0.7).prioritize
PriorityOf(severity_score) == IF severity_score >= 7 THEN "alta" ELSE "media"

Prioritize(normalized_ioc) ==
    [seq            |-> normalized_ioc.seq,
     indicator      |-> normalized_ioc.indicator,
     category       |-> normalized_ioc.category,
     severity_score |-> normalized_ioc.severity_score,
     priority       |-> PriorityOf(normalized_ioc.severity_score)]

\* asyncio.Queue.put on an unbounded queue, first in first out.
\* (QueuePutLifo: the put of asyncio.LifoQueue.)
QueuePutLifo(q, item) == <<item>> \o q

QueuePut(q, item) == Append(q, item)

\* FeedIntegrationAgent.run: await output_queue.put(evt) for a collected event.
FeedPut ==
    /\ fetched < MaxIndicators
    /\ fetched' = fetched + 1
    /\ \E severity \in RawSeverities :
          queue_raw' = QueuePut(queue_raw, RawIndicator(fetched + 1, severity))
    /\ UNCHANGED <<recover, protect, identify, queue_norm, queue_prio, alerts>>

\* ThreatNormalizationAgent.run: get, normalize, put.
NormalizeStep ==
    /\ queue_raw # <<>>
    /\ queue_raw' = Tail(queue_raw)
    /\ queue_norm' = QueuePut(queue_norm, Normalize(Head(queue_raw)))
    /\ UNCHANGED <<recover, protect, identify, queue_prio, alerts, fetched>>

\* PrioritizationAgent.run: get, prioritize, put.
PrioritizeStep ==
    /\ queue_norm # <<>>
    /\ queue_norm' = Tail(queue_norm)
    /\ queue_prio' = QueuePut(queue_prio, Prioritize(Head(queue_norm)))
    /\ UNCHANGED <<recover, protect, identify, queue_raw, alerts, fetched>>

\* AlertAgent.run: get, emit_alert.
EmitAlert ==
    /\ queue_prio # <<>>
    /\ queue_prio' = Tail(queue_prio)
    /\ alerts' = Append(alerts, Head(queue_prio))
    /\ UNCHANGED <<recover, protect, identify, queue_raw, queue_norm, fetched>>

NextPipeline ==
    \/ FeedPut
    \/ NormalizeStep
    \/ PrioritizeStep
    \/ EmitAlert

\* asyncio.gather on one event loop: a coroutine whose queue has an item is
\* resumed.
SpecPipeline ==
    /\ Init
    /\ [][NextPipeline]_vars
    /\ WF_vars(NormalizeStep)
    /\ WF_vars(PrioritizeStep)
    /\ WF_vars(EmitAlert)

\* The sequence numbers of the items of a queue.
Seqs(q) == [k \in 1..Len(q) |-> q[k].seq]

\* The indicators in flight and alerted, oldest first, are 1..fetched in
\* order: none lost, none twice, none overtaken.
InFeedOrder ==
    Seqs(alerts) \o Seqs(queue_prio) \o Seqs(queue_norm) \o Seqs(queue_raw)
        = [k \in 1..fetched |-> k]

\* What is in each queue went through the stages before it, and only those.
StagesInOrder ==
    /\ \A k \in 1..Len(queue_raw) : DOMAIN queue_raw[k] = DOMAIN RawIndicator(1, 1)
    /\ \A k \in 1..Len(queue_norm) :
          DOMAIN queue_norm[k] = DOMAIN Normalize(RawIndicator(1, 1))
    /\ \A q \in {queue_prio, alerts} : \A k \in 1..Len(q) :
          /\ DOMAIN q[k] = DOMAIN Prioritize(Normalize(RawIndicator(1, 1)))
          /\ q[k].priority = PriorityOf(q[k].severity_score)

\* C39 (threat-intel pipeline delivery): the indicators are alerted in the
\* order in which they were put on the raw queue, each once, after
\* normalization and then prioritization; and every indicator put on the raw
\* queue is eventually alerted.
C39_PipelineDelivery ==
    /\ [](InFeedOrder /\ StagesInOrder)
    /\ \A n \in 1..MaxIndicators : (fetched >= n) ~> (Len(alerts) >= n)

\* All the indicators were alerted, with both priorities among them.
C39_Witness ==
    /\ Len(alerts) = MaxIndicators
    /\ \E i, j \in 1..Len(alerts) :
          alerts[i].priority = "alta" /\ alerts[j].priority = "media"

=============================================================================
